---- MODULE Spec2Model ----
(***************************************************************************)
(* Model of the Creative Engine dashboard: App (auth gate), Dashboard      *)
(* (project list, logout), ProjectForm (asset upload + project insert)     *)
(* and CreativeGenerator (load, generate, archive export).                 *)
(*                                                                         *)
(* Every remote call is an await: the handler stops at the call, the       *)
(* backend answers in a later step, and other handlers may run in between. *)
(* One action of the model is the piece of a handler between two awaits.   *)
(***************************************************************************)
EXTENDS Integers, Sequences, FiniteSets, TLC

\* ------------------------------------------------------------------ bounds
\* CreativeGenerator instances mounted over a behaviour (selecting a project
\* mounts a fresh one, Back unmounts it).
MaxMounts == 2
\* generateCreatives runs started over a behaviour.
MaxRuns == 2
\* Longest creatives array the remote function returns.
MaxN == 2

Insts == 1..MaxMounts
Runs == 1..MaxRuns

\* downloadAsZip runs started over a behaviour.
MaxZips == 1

\* ProjectForm instances opened, submissions started and preview URLs created
\* over a behaviour.
MaxForms == 1
MaxSubmits == 2
MaxUrls == 1

\* handleLogout calls awaited at once.
MaxSignOuts == 2

\* result.creatives is absent from the JSON body (the body is not validated).
NoCreatives == -1

VARIABLES
    \* ---- remote store
    store,          \* generated_creatives rows of the project: [run, vn]
    \* ---- Dashboard
    selected,       \* the mounted CreativeGenerator instance, 0 = project list
    mounts,         \* instances mounted so far
    \* ---- CreativeGenerator, per instance
    generating, creatives, loading, progress,
    loadCall,       \* the loadCreatives calls: [site -> [pc, err, data]]
    genPc,          \* where generateCreatives stands
    genRun,         \* the run the instance's generateCreatives is executing
    genAlert,       \* the last generateCreatives run raised the failure alert
    readBefore,     \* the list shown was read before any batch was ever stored
    \* ---- generation runs
    runs,           \* runs started so far
    result,         \* run -> length of result.creatives (or NoCreatives)
    insertedRuns,   \* runs whose insert succeeded
    genOut,         \* per instance: the remote calls its generateCreatives awaits
    genIssued,      \* per run: the remote calls it has issued, in order
    \* ---- downloadAsZip, per instance
    downloadingZip,
    zipPc,          \* where downloadAsZip stands
    zipList,        \* the creatives list the handler closed over
    zipIdx,         \* the loop index i (1-based here)
    zipCaptions,    \* captions.txt, once added to the archive
    zipFiles,       \* the image files of the archive: [name, content, image]
    zipOutcome,     \* the outcome of each image fetch so far, in loop order
    zipThrew,       \* the await whose failure reached the outer catch (alert)
    downloaded,     \* the archive the browser was given to download
    zips,           \* downloadAsZip runs started so far
    zipOut,         \* per instance: the remote calls its downloadAsZip awaits
    zipIssued,      \* per instance: the remote calls the handler issued, in order
    \* ---- auth client and App
    authSession,    \* the session the auth client holds
    session,        \* App's held session
    appLoading,
    lookupPc,       \* the initial getSession(): "sent", "resolved", "rejected"
    lastEvent,      \* the last event that gave App a session: [kind, session]
    signOuts,       \* handleLogout runs awaiting signOut
    failedCalls,    \* App/Dashboard actions in which a remote call failed
    \* ---- Dashboard: project list
    dashLoading,
    projects,       \* the project list shown
    showNewProject,
    projLoads,      \* loadProjects calls of the mounted Dashboard still awaited
    \* ---- ProjectForm (the mounted instance)
    formId,         \* instances opened so far; the mounted one when showNewProject
    name, brandName, logoFile, productFile, logoPreview, productPreview,
    formLoading, formError,
    \* ---- browser blob URLs
    urlsCreated,    \* URL.createObjectURL calls so far: URLs 1..urlsCreated
    revokedUrls,    \* URLs given to URL.revokeObjectURL
    \* ---- handleSubmit runs
    subs,           \* submission -> [pc, form, name, brand, logo, product, ...]
    nsubs,          \* submissions started so far
    callLog,        \* submission -> its remote calls as answered, in order
    bucket,         \* brand-assets objects: [sub, kind]
    projectsTbl,    \* projects rows
    subOut,         \* per submission: the remote calls its handleSubmit awaits
    onSuccessCalls  \* submission -> times onSuccess() was called

genVars == <<store, selected, mounts, generating, creatives, loading, progress,
             loadCall, genPc, genRun, genAlert, readBefore, runs, result,
             insertedRuns, genOut, genIssued>>

zipVars == <<downloadingZip, zipPc, zipList, zipIdx, zipCaptions, zipFiles,
             zipOutcome, zipThrew, downloaded, zips, zipOut, zipIssued>>

appVars == <<authSession, session, appLoading, lookupPc, lastEvent, signOuts,
             failedCalls, dashLoading, projects>>

formVars == <<showNewProject, projLoads, formId, name, brandName, logoFile,
              productFile, logoPreview, productPreview, formLoading, formError,
              urlsCreated, revokedUrls, subs, nsubs, callLog, bucket, projectsTbl,
              onSuccessCalls, subOut>>

vars == <<genVars, zipVars, formVars, appVars>>

\* ------------------------------------------------------------ App and Dashboard

NoSession == "null"
Sessions == {"s1", "s2"}

\* App's render: the spinner while loading, AuthForm without a session, else the
\* Dashboard.
Render(isLoading, held) ==
    IF isLoading THEN "spinner" ELSE IF held = NoSession THEN "login" ELSE "dashboard"

View == Render(appLoading, session)

\* The project that exists before the behaviour starts.
ExistingProject ==
    [sub |-> 0, name |-> "Summer", brand_name |-> "Summer", logo_url |-> "null",
     product_image_url |-> "null"]

RECURSIVE NewestFirst(_)
\* .order('created_at', {ascending: false}) of the projects rows.
NewestFirst(S) ==
    IF S = {} THEN <<>>
    ELSE LET p == CHOOSE x \in S : \A y \in S : y.sub <= x.sub
         IN  <<p>> \o NewestFirst(S \ {p})

\* What a change of App's render does to the Dashboard: mounting it runs the
\* mount effect (loadProjects); unmounting it discards its state, and what its
\* pending loadProjects calls set is lost.
DashboardEffect ==
    IF View # "dashboard" /\ View' = "dashboard"
    THEN /\ dashLoading' = TRUE
         /\ projects' = <<>>
         /\ projLoads' = 1
    ELSE IF View = "dashboard" /\ View' # "dashboard"
    THEN /\ projLoads' = 0
         /\ UNCHANGED <<dashLoading, projects>>
    ELSE UNCHANGED <<dashLoading, projects, projLoads>>

FormRestUnchanged ==
    UNCHANGED <<showNewProject, formId, name, brandName, logoFile, productFile,
                logoPreview, productPreview, formLoading, formError, urlsCreated,
                revokedUrls, subs, nsubs, callLog, bucket, projectsTbl,
                onSuccessCalls, subOut>>

\* getSession().then(...): setSession(session); setLoading(false).
LookupResolve ==
    /\ UNCHANGED <<genVars, zipVars>>
    /\ lookupPc = "sent"
    /\ lookupPc' = "resolved"
    /\ session' = authSession
    /\ appLoading' = FALSE
    /\ lastEvent' = [kind |-> "lookup", session |-> authSession]
    /\ DashboardEffect
    /\ FormRestUnchanged
    /\ UNCHANGED <<authSession, signOuts, failedCalls>>

\* getSession() rejects: the promise has no catch, so nothing runs.
LookupReject ==
    /\ UNCHANGED <<genVars, zipVars, formVars>>
    /\ lookupPc = "sent"
    /\ lookupPc' = "rejected"
    /\ failedCalls' = failedCalls \cup {"getSession"}
    /\ UNCHANGED <<authSession, session, appLoading, lastEvent, signOuts, dashLoading,
                   projects>>

\* The auth client changes its session (sign-in through AuthForm, sign-out
\* elsewhere, token refresh) and calls the onAuthStateChange callback:
\* setSession(session).
AuthStateChange(s) ==
    /\ UNCHANGED <<genVars, zipVars>>
    /\ authSession' = s
    /\ session' = s
    /\ lastEvent' = [kind |-> "change", session |-> s]
    /\ UNCHANGED <<appLoading, lookupPc, signOuts, failedCalls>>
    /\ DashboardEffect
    /\ FormRestUnchanged

\* A loadProjects call returns: setProjects(data), or the error is logged;
\* finally setLoading(false).
LoadProjectsReturn ==
    /\ UNCHANGED <<genVars, zipVars>>
    /\ projLoads > 0
    /\ projLoads' = projLoads - 1
    /\ \/ /\ projects' = NewestFirst(projectsTbl)
          /\ UNCHANGED failedCalls
       \/ /\ failedCalls' = failedCalls \cup {"loadProjects"}
          /\ UNCHANGED projects
    /\ dashLoading' = FALSE
    /\ FormRestUnchanged
    /\ UNCHANGED <<authSession, session, appLoading, lookupPc, lastEvent, signOuts>>

\* The Logout button of the project list: handleLogout awaits signOut().
HandleLogout ==
    /\ UNCHANGED <<genVars, zipVars, formVars>>
    /\ View = "dashboard"
    /\ selected = 0 /\ ~showNewProject
    /\ signOuts < MaxSignOuts
    /\ signOuts' = signOuts + 1
    /\ UNCHANGED <<authSession, session, appLoading, lookupPc, lastEvent, failedCalls,
                   dashLoading, projects>>

\* Mutant of OnLogout: the callback does nothing.
Mut_OnLogout(held) == held

\* onLogout={() => setSession(null)}
OnLogout(held) == NoSession

\* signOut returns. "ok": the session is removed and the auth client notifies
\* (setSession(null)); "error": an error object is returned, the session stays;
\* either way onLogout() runs. "throw": signOut rejects, handleLogout has no
\* catch and onLogout() is not reached.
SignOutReturn(outcome) ==
    /\ UNCHANGED <<genVars, zipVars>>
    /\ signOuts > 0
    /\ signOuts' = signOuts - 1
    /\ authSession' = IF outcome = "ok" THEN NoSession ELSE authSession
    /\ IF outcome = "throw"
       THEN UNCHANGED <<session, lastEvent>>
       ELSE /\ session' = OnLogout(IF outcome = "ok" THEN NoSession ELSE session)
            /\ lastEvent' = [kind |-> "logout", session |-> NoSession]
    /\ failedCalls' = IF outcome = "ok" THEN failedCalls
                      ELSE failedCalls \cup {"signOut"}
    /\ UNCHANGED <<appLoading, lookupPc>>
    /\ DashboardEffect
    /\ FormRestUnchanged

\* The page has just loaded: App is mounted, its effect has called getSession()
\* and subscribed; the auth client may hold a stored session.
InitApp ==
    /\ authSession \in {NoSession, "s1"}
    /\ session = NoSession
    /\ appLoading = TRUE
    /\ lookupPc = "sent"
    /\ lastEvent = [kind |-> "none", session |-> NoSession]
    /\ signOuts = 0
    /\ failedCalls = {}
    /\ dashLoading = TRUE
    /\ projects = <<>>

\* A signed-in user looks at the loaded project list.
InitSignedIn ==
    /\ authSession = "s1"
    /\ session = "s1"
    /\ appLoading = FALSE
    /\ lookupPc = "resolved"
    /\ lastEvent = [kind |-> "lookup", session |-> "s1"]
    /\ signOuts = 0
    /\ failedCalls = {}
    /\ dashLoading = FALSE
    /\ projects = <<ExistingProject>>

\* ------------------------------------------------------------ CreativeGenerator

\* creativesToInsert: one row per returned creative, variation_number = index + 1.
CreativesToInsert(r, n) == {[run |-> r, vn |-> index + 1] : index \in 0..(n - 1)}

RECURSIVE MinVn(_)
MinVn(S) ==
    LET x == CHOOSE y \in S : TRUE
    IN  IF S = {x} THEN x.vn
        ELSE LET m == MinVn(S \ {x}) IN IF x.vn < m THEN x.vn ELSE m

\* .order('variation_number', {ascending: true}): every order of the rows that
\* is ascending in variation_number (rows with equal numbers come in any order).
RECURSIVE OrderByVariation(_)
OrderByVariation(S) ==
    IF S = {} THEN {<<>>}
    ELSE UNION {{<<r>> \o t : t \in OrderByVariation(S \ {r})} :
                    r \in {x \in S : x.vn = MinVn(S)}}

IdleCall == [pc |-> "idle", err |-> FALSE, data |-> <<>>, before |-> FALSE]
SentCall == [pc |-> "sent", err |-> FALSE, data |-> <<>>, before |-> FALSE]

\* The calls of a handler: a sequence as a set.
Range(q) == {q[k] : k \in 1..Len(q)}

\* A handler standing at an await that has not returned awaits a second call as
\* well (the calls fan out).
Mut_Await(out, returned, next) == out \cup Range(next)

\* await: the handler resumes when the call it awaits has returned, and runs up
\* to the next call it issues (next is <<>> when the handler ends).
Await(out, returned, next) == (out \ {returned}) \cup Range(next)

\* generateCreatives of instance i resumes after `returned` and issues `next`.
GenAwait(i, returned, next) ==
    /\ genOut' = [genOut EXCEPT ![i] = Await(@, returned, next)]
    /\ genIssued' = [genIssued EXCEPT ![genRun[i]] = @ \o next]

\* Dashboard: clicking a project card mounts CreativeGenerator; its mount effect
\* calls loadCreatives.
SelectProject ==
    /\ UNCHANGED <<zipVars, formVars, appVars>>
    /\ UNCHANGED <<genOut, genIssued>>
    /\ View = "dashboard" /\ ~dashLoading /\ projects # <<>>
    /\ selected = 0 /\ ~showNewProject
    /\ mounts < MaxMounts
    /\ mounts' = mounts + 1
    /\ selected' = mounts + 1
    /\ loadCall' = [loadCall EXCEPT ![mounts + 1]["mount"] = SentCall]
    /\ UNCHANGED <<store, generating, creatives, readBefore, loading, progress, genPc, genRun,
                   genAlert, runs, result, insertedRuns>>

\* onBack: the instance is unmounted; nothing it awaits is cancelled.
Back ==
    /\ UNCHANGED <<zipVars, formVars, appVars>>
    /\ UNCHANGED <<genOut, genIssued>>
    /\ selected # 0
    /\ selected' = 0
    /\ UNCHANGED <<store, mounts, generating, creatives, readBefore, loading, progress, loadCall,
                   genPc, genRun, genAlert, runs, result, insertedRuns>>

\* The backend answers a loadCreatives select: an error, or the rows as they are now.
LoadCreativesSelect(i, site) ==
    /\ UNCHANGED <<zipVars, formVars, appVars>>
    /\ UNCHANGED <<genOut, genIssued>>
    /\ loadCall[i][site].pc = "sent"
    /\ \/ loadCall' = [loadCall EXCEPT ![i][site] =
                          [pc |-> "resp", err |-> TRUE, data |-> <<>>, before |-> FALSE]]
       \/ \E s \in OrderByVariation(store) :
             loadCall' = [loadCall EXCEPT ![i][site] =
                          [pc |-> "resp", err |-> FALSE, data |-> s,
                           before |-> insertedRuns = {}]]
    /\ UNCHANGED <<store, selected, mounts, generating, creatives, readBefore, loading, progress,
                   genPc, genRun, genAlert, runs, result, insertedRuns>>

\* loadCreatives after its await: throw on error (caught and logged), else
\* setCreatives(data); finally setLoading(false).
LoadCreativesDone(i, site) ==
    /\ creatives' = IF loadCall[i][site].err THEN creatives
                    ELSE [creatives EXCEPT ![i] = loadCall[i][site].data]
    /\ readBefore' = IF loadCall[i][site].err THEN readBefore
                     ELSE [readBefore EXCEPT ![i] = loadCall[i][site].before]
    /\ loading' = [loading EXCEPT ![i] = FALSE]
    /\ loadCall' = [loadCall EXCEPT ![i][site] = IdleCall]

\* The loadCreatives call of the mount effect returns.
MountLoadReturn(i) ==
    /\ UNCHANGED <<zipVars, formVars, appVars>>
    /\ UNCHANGED <<genOut, genIssued>>
    /\ loadCall[i]["mount"].pc = "resp"
    /\ LoadCreativesDone(i, "mount")
    /\ UNCHANGED <<store, selected, mounts, generating, progress, genPc, genRun,
                   genAlert, runs, result, insertedRuns>>

\* A finally block that leaves the progress value where the run stopped.
Mut_GenFinally(i) ==
    /\ generating' = [generating EXCEPT ![i] = FALSE]
    /\ progress' = progress
    /\ genPc' = [genPc EXCEPT ![i] = "idle"]

\* finally { setGenerating(false); setProgress(0) }
GenFinally(i) ==
    /\ generating' = [generating EXCEPT ![i] = FALSE]
    /\ progress' = [progress EXCEPT ![i] = 0]
    /\ genPc' = [genPc EXCEPT ![i] = "idle"]

\* A catch block that logs the error and shows nothing.
Mut_GenFail(i) ==
    /\ genAlert' = genAlert
    /\ GenFinally(i)

\* catch { alert(...) } finally { setGenerating(false); setProgress(0) }
GenFail(i) ==
    /\ genAlert' = [genAlert EXCEPT ![i] = TRUE]
    /\ GenFinally(i)

\* The Generate button (disabled while generating) of the mounted instance.
GenStart(i) ==
    /\ UNCHANGED <<zipVars, formVars, appVars>>
    /\ genOut' = [genOut EXCEPT ![i] = {"getSession"}]
    /\ genIssued' = [genIssued EXCEPT ![runs + 1] = <<"getSession">>]
    /\ selected = i
    /\ ~generating[i]
    /\ runs < MaxRuns
    /\ runs' = runs + 1
    /\ genRun' = [genRun EXCEPT ![i] = runs + 1]
    /\ generating' = [generating EXCEPT ![i] = TRUE]
    /\ progress' = [progress EXCEPT ![i] = 0]
    /\ genAlert' = [genAlert EXCEPT ![i] = FALSE]
    /\ genPc' = [genPc EXCEPT ![i] = "getSession"]
    /\ UNCHANGED <<store, selected, mounts, creatives, readBefore, loading, loadCall, result,
                   insertedRuns>>

\* getSession returns: no session throws, else setProgress(20) and the function call.
GenSession(i) ==
    /\ UNCHANGED <<zipVars, formVars, appVars>>
    /\ genPc[i] = "getSession"
    /\ \/ /\ GenFail(i)
          /\ GenAwait(i, "getSession", <<>>)
          /\ UNCHANGED <<store, selected, mounts, creatives, readBefore, loading, loadCall, genRun,
                         runs, result, insertedRuns>>
       \/ /\ progress' = [progress EXCEPT ![i] = 20]
          /\ GenAwait(i, "getSession", <<"fetch">>)
          /\ genPc' = [genPc EXCEPT ![i] = "fetch"]
          /\ UNCHANGED <<store, selected, mounts, generating, creatives, readBefore, loading,
                         loadCall, genRun, genAlert, runs, result, insertedRuns>>

\* The generate-creatives function answers: fetch rejects or !response.ok throws,
\* else result = response.json(), setProgress(60) and the delete is issued.
GenFetch(i) ==
    /\ UNCHANGED <<zipVars, formVars, appVars>>
    /\ genPc[i] = "fetch"
    /\ \/ /\ GenFail(i)
          /\ GenAwait(i, "fetch", <<>>)
          /\ UNCHANGED <<store, selected, mounts, creatives, readBefore, loading, loadCall, genRun,
                         runs, result, insertedRuns>>
       \/ \E n \in (0..MaxN) \cup {NoCreatives} :
          /\ result' = [result EXCEPT ![genRun[i]] = n]
          /\ progress' = [progress EXCEPT ![i] = 60]
          /\ GenAwait(i, "fetch", <<"delete">>)
          /\ genPc' = [genPc EXCEPT ![i] = "delete"]
          /\ UNCHANGED <<store, selected, mounts, generating, creatives, readBefore, loading,
                         loadCall, genRun, genAlert, runs, insertedRuns>>

\* The delete of the project's rows: it removes them or returns an error; the
\* code does not look at what it returns.
DeleteRows(ok) == IF ok THEN {} ELSE store

\* The delete answers; result.creatives.map(...) then throws when the body holds
\* no creatives array, else the insert is issued.
GenDelete(i) ==
    /\ UNCHANGED <<zipVars, formVars, appVars>>
    /\ genPc[i] = "delete"
    /\ \E ok \in BOOLEAN : store' = DeleteRows(ok)
    /\ IF result[genRun[i]] = NoCreatives
       THEN /\ GenFail(i)
            /\ GenAwait(i, "delete", <<>>)
            /\ UNCHANGED <<selected, mounts, creatives, readBefore, loading, loadCall, genRun,
                           runs, result, insertedRuns>>
       ELSE /\ genPc' = [genPc EXCEPT ![i] = "insert"]
            /\ GenAwait(i, "delete", <<"insert">>)
            /\ UNCHANGED <<selected, mounts, generating, creatives, readBefore, loading, progress,
                           loadCall, genRun, genAlert, runs, result, insertedRuns>>

\* The insert answers: insertError throws, else setProgress(100) and loadCreatives().
GenInsert(i) ==
    /\ UNCHANGED <<zipVars, formVars, appVars>>
    /\ genPc[i] = "insert"
    /\ \/ /\ GenFail(i)
          /\ GenAwait(i, "insert", <<>>)
          /\ UNCHANGED <<store, selected, mounts, creatives, readBefore, loading, loadCall, genRun,
                         runs, result, insertedRuns>>
       \/ /\ store' = store \cup CreativesToInsert(genRun[i], result[genRun[i]])
          /\ insertedRuns' = insertedRuns \cup {genRun[i]}
          /\ progress' = [progress EXCEPT ![i] = 100]
          /\ GenAwait(i, "insert", <<"select">>)
          /\ genPc' = [genPc EXCEPT ![i] = "reload"]
          /\ loadCall' = [loadCall EXCEPT ![i]["gen"] = SentCall]
          /\ UNCHANGED <<selected, mounts, generating, creatives, readBefore, loading, genRun,
                         genAlert, runs, result>>

\* await loadCreatives() returns (it never throws); finally setGenerating(false),
\* setProgress(0).
GenReloadReturn(i) ==
    /\ UNCHANGED <<zipVars, formVars, appVars>>
    /\ genPc[i] = "reload"
    /\ loadCall[i]["gen"].pc = "resp"
    /\ LoadCreativesDone(i, "gen")
    /\ GenFinally(i)
    /\ GenAwait(i, "select", <<>>)
    /\ UNCHANGED <<store, selected, mounts, genRun, genAlert, runs, result,
                   insertedRuns>>

\* -------------------------------------------------------------- downloadAsZip

NoArchive == [captions |-> <<>>, files |-> {}, none |-> TRUE]

\* captionsText: creatives.map((creative, index) => `Image ${index + 1}: ...`),
\* one entry per list element, numbered by its place in the list.
CaptionsText(list) == [index \in 1..Len(list) |-> [image |-> index, of |-> list[index]]]

\* zip.file(name, blob): a file of that name is replaced.
ZipFile(files, fname, blob, isImage) ==
    {f \in files : f.name # fname}
        \cup {[name |-> fname, content |-> blob, image |-> isImage]}

\* The file name creative_${creative.variation_number}.jpg, as its number.
FileName(creative) == creative.vn

\* The remote calls of downloadAsZip: the import of JSZip from the CDN, and the
\* fetch of creatives[i].image_url in turn i of the loop.
ImportCall == [call |-> "import", idx |-> 0, of |-> [run |-> 0, vn |-> 0]]
FetchCall(list, idx) == [call |-> "fetch", idx |-> idx, of |-> list[idx]]

\* downloadAsZip of instance i resumes after `returned` and issues `next`.
ZipAwait(i, returned, next) ==
    /\ zipOut' = [zipOut EXCEPT ![i] = Await(@, returned, next)]
    /\ zipIssued' = [zipIssued EXCEPT ![i] = @ \o next]

\* Outer catch { alert(...) } finally { setDownloadingZip(false) }
ZipFail(i, at) ==
    /\ zipThrew' = [zipThrew EXCEPT ![i] = at]
    /\ downloadingZip' = [downloadingZip EXCEPT ![i] = FALSE]
    /\ zipPc' = [zipPc EXCEPT ![i] = "idle"]

\* The Download button: rendered when creatives.length > 0, disabled while
\* downloadingZip. The handler closes over the creatives of this render.
ZipStart(i) ==
    /\ UNCHANGED <<genVars, formVars, appVars>>
    /\ selected = i
    /\ Len(creatives[i]) > 0
    /\ ~downloadingZip[i]
    /\ zips < MaxZips
    /\ zips' = zips + 1
    /\ downloadingZip' = [downloadingZip EXCEPT ![i] = TRUE]
    /\ zipList' = [zipList EXCEPT ![i] = creatives[i]]
    /\ zipPc' = [zipPc EXCEPT ![i] = "import"]
    /\ zipIdx' = [zipIdx EXCEPT ![i] = 0]
    /\ zipCaptions' = [zipCaptions EXCEPT ![i] = <<>>]
    /\ zipFiles' = [zipFiles EXCEPT ![i] = {}]
    /\ zipOutcome' = [zipOutcome EXCEPT ![i] = <<>>]
    /\ zipThrew' = [zipThrew EXCEPT ![i] = "none"]
    /\ downloaded' = [downloaded EXCEPT ![i] = NoArchive]
    /\ zipOut' = [zipOut EXCEPT ![i] = {ImportCall}]
    /\ zipIssued' = [zipIssued EXCEPT ![i] = <<ImportCall>>]

\* The dynamic import of JSZip returns: a rejection reaches the outer catch, else
\* captions.txt is added and the first image fetch is issued.
ZipImport(i) ==
    /\ UNCHANGED <<genVars, formVars, appVars>>
    /\ zipPc[i] = "import"
    /\ \/ /\ ZipFail(i, "import")
          /\ ZipAwait(i, ImportCall, <<>>)
          /\ UNCHANGED <<zipList, zipIdx, zipCaptions, zipFiles, zipOutcome,
                         downloaded, zips>>
       \/ /\ zipCaptions' = [zipCaptions EXCEPT ![i] = CaptionsText(zipList[i])]
          /\ ZipAwait(i, ImportCall, IF Len(zipList[i]) >= 1
                                      THEN <<FetchCall(zipList[i], 1)>> ELSE <<>>)
          /\ zipIdx' = [zipIdx EXCEPT ![i] = 1]
          /\ zipPc' = [zipPc EXCEPT ![i] = IF Len(zipList[i]) >= 1 THEN "fetch"
                                           ELSE "generate"]
          /\ UNCHANGED <<downloadingZip, zipList, zipFiles, zipOutcome, zipThrew,
                         downloaded, zips>>

\* One turn of the loop: fetch(creative.image_url) and response.blob() return.
\* "ok": the image; "http": an error response, which resolves like any other and
\* whose body is stored; "reject": fetch or blob() throws, the inner catch logs it
\* and the loop goes on.
ZipFetch(i) ==
    /\ UNCHANGED <<genVars, formVars, appVars>>
    /\ zipPc[i] = "fetch"
    /\ \E o \in {"ok", "http", "reject"} :
        /\ zipOutcome' = [zipOutcome EXCEPT ![i] = Append(@, o)]
        /\ zipFiles' = [zipFiles EXCEPT ![i] =
              IF o = "reject" THEN @
              ELSE ZipFile(@, FileName(zipList[i][zipIdx[i]]), zipList[i][zipIdx[i]],
                           o = "ok")]
    /\ zipIdx' = [zipIdx EXCEPT ![i] = @ + 1]
    /\ ZipAwait(i, FetchCall(zipList[i], zipIdx[i]),
                IF zipIdx[i] < Len(zipList[i])
                THEN <<FetchCall(zipList[i], zipIdx[i] + 1)>> ELSE <<>>)
    /\ zipPc' = [zipPc EXCEPT ![i] = IF zipIdx[i] < Len(zipList[i]) THEN "fetch"
                                     ELSE "generate"]
    /\ UNCHANGED <<downloadingZip, zipList, zipCaptions, zipThrew, downloaded, zips>>

\* zip.generateAsync returns: a rejection reaches the outer catch, else the link
\* is clicked (the download) and setDownloadingZip(false).
ZipGenerate(i) ==
    /\ UNCHANGED <<genVars, formVars, appVars>>
    /\ zipPc[i] = "generate"
    /\ UNCHANGED <<zipOut, zipIssued>>
    /\ \/ /\ ZipFail(i, "generateAsync")
          /\ UNCHANGED <<zipList, zipIdx, zipCaptions, zipFiles, zipOutcome,
                         downloaded, zips>>
       \/ /\ downloaded' = [downloaded EXCEPT ![i] =
                [captions |-> zipCaptions[i], files |-> zipFiles[i], none |-> FALSE]]
          /\ downloadingZip' = [downloadingZip EXCEPT ![i] = FALSE]
          /\ zipPc' = [zipPc EXCEPT ![i] = "idle"]
          /\ UNCHANGED <<zipList, zipIdx, zipCaptions, zipFiles, zipOutcome, zipThrew,
                         zips>>

InitZip ==
    /\ downloadingZip = [i \in Insts |-> FALSE]
    /\ zipPc = [i \in Insts |-> "idle"]
    /\ zipList = [i \in Insts |-> <<>>]
    /\ zipIdx = [i \in Insts |-> 0]
    /\ zipCaptions = [i \in Insts |-> <<>>]
    /\ zipFiles = [i \in Insts |-> {}]
    /\ zipOutcome = [i \in Insts |-> <<>>]
    /\ zipThrew = [i \in Insts |-> "none"]
    /\ downloaded = [i \in Insts |-> NoArchive]
    /\ zips = 0
    /\ zipOut = [i \in Insts |-> {}]
    /\ zipIssued = [i \in Insts |-> <<>>]

\* ---------------------------------------------------------------- ProjectForm

Subs == 1..MaxSubmits

\* useState('') of a text input or a preview; useState<File | null>(null).
EmptyString == ""
NoFile == "null"
NoPreview == 0
Names == {EmptyString, "Summer"}
Files == {"file"}

NoSub == [pc |-> "idle", form |-> 0, name |-> EmptyString, brand |-> EmptyString,
          logo |-> NoFile, product |-> NoFile, logoUrl |-> "", productUrl |-> ""]

\* Mutant of Required: the inputs are not marked required.
Mut_Required(v) == TRUE

\* The `required` attribute of the two text inputs: the browser does not fire the
\* form's submit event while the value is empty.
Required(v) == v # EmptyString

\* logoUrl || null
OrNull(url) == IF url = "" THEN "null" ELSE url

\* getPublicUrl(path).data.publicUrl of an uploaded object.
PublicUrl(s, kind) == IF kind = "logo" THEN "https://logo" ELSE "https://product"

\* FileUpload is given `preview` only to show it: it hands the chosen file to
\* onFileSelect and calls onClear from its clear button. The URLs it revokes.
FileUploadRevokes(preview) == {}

\* A set-state of handleSubmit reaches the form only while the instance that
\* started the submission is still mounted.
FormOf(s) == showNewProject /\ subs[s].form = formId

\* The useState values of a ProjectForm instance; the state of an unmounted
\* instance is discarded.
FreshForm ==
    /\ name' = EmptyString
    /\ brandName' = EmptyString
    /\ logoFile' = NoFile
    /\ productFile' = NoFile
    /\ logoPreview' = NoPreview
    /\ productPreview' = NoPreview
    /\ formLoading' = FALSE
    /\ formError' = ""

\* Dashboard: "New Project" / "Create Project" mounts a fresh ProjectForm.
NewProject ==
    /\ UNCHANGED <<genVars, zipVars, appVars>>
    /\ UNCHANGED subOut
    /\ View = "dashboard"
    /\ selected = 0
    /\ ~showNewProject
    /\ formId < MaxForms
    /\ showNewProject' = TRUE
    /\ formId' = formId + 1
    /\ FreshForm
    /\ UNCHANGED <<projLoads, urlsCreated, revokedUrls, subs, nsubs, callLog, bucket,
                   projectsTbl, onSuccessCalls>>

\* onCancel={() => setShowNewProject(false)}: the form is unmounted.
CancelForm ==
    /\ UNCHANGED <<genVars, zipVars, appVars>>
    /\ UNCHANGED subOut
    /\ showNewProject
    /\ showNewProject' = FALSE
    /\ FreshForm
    /\ UNCHANGED <<projLoads, formId, urlsCreated, revokedUrls, subs, nsubs, callLog,
                   bucket, projectsTbl, onSuccessCalls>>

SetName(v) ==
    /\ UNCHANGED <<genVars, zipVars, appVars>>
    /\ UNCHANGED subOut
    /\ showNewProject
    /\ name' = v
    /\ UNCHANGED <<showNewProject, projLoads, formId, brandName, logoFile, productFile,
                   logoPreview, productPreview, formLoading, formError, urlsCreated,
                   revokedUrls, subs, nsubs, callLog, bucket, projectsTbl,
                   onSuccessCalls>>

SetBrandName(v) ==
    /\ UNCHANGED <<genVars, zipVars, appVars>>
    /\ UNCHANGED subOut
    /\ showNewProject
    /\ brandName' = v
    /\ UNCHANGED <<showNewProject, projLoads, formId, name, logoFile, productFile,
                   logoPreview, productPreview, formLoading, formError, urlsCreated,
                   revokedUrls, subs, nsubs, callLog, bucket, projectsTbl,
                   onSuccessCalls>>

\* handleLogoSelect: setLogoFile(file); setLogoPreview(URL.createObjectURL(file)).
HandleLogoSelect(file) ==
    /\ UNCHANGED <<genVars, zipVars, appVars>>
    /\ UNCHANGED subOut
    /\ showNewProject
    /\ urlsCreated < MaxUrls
    /\ urlsCreated' = urlsCreated + 1
    /\ logoFile' = file
    /\ logoPreview' = urlsCreated + 1
    /\ UNCHANGED <<showNewProject, projLoads, formId, name, brandName, productFile,
                   productPreview, formLoading, formError, revokedUrls, subs, nsubs,
                   callLog, bucket, projectsTbl, onSuccessCalls>>

\* handleProductSelect.
HandleProductSelect(file) ==
    /\ UNCHANGED <<genVars, zipVars, appVars>>
    /\ UNCHANGED subOut
    /\ showNewProject
    /\ urlsCreated < MaxUrls
    /\ urlsCreated' = urlsCreated + 1
    /\ productFile' = file
    /\ productPreview' = urlsCreated + 1
    /\ UNCHANGED <<showNewProject, projLoads, formId, name, brandName, logoFile,
                   logoPreview, formLoading, formError, revokedUrls, subs, nsubs,
                   callLog, bucket, projectsTbl, onSuccessCalls>>

\* onClear of the logo FileUpload: setLogoFile(null); setLogoPreview('').
ClearLogo ==
    /\ UNCHANGED <<genVars, zipVars, appVars>>
    /\ UNCHANGED subOut
    /\ showNewProject
    /\ logoPreview # NoPreview
    /\ revokedUrls' = revokedUrls \cup FileUploadRevokes(logoPreview)
    /\ logoFile' = NoFile
    /\ logoPreview' = NoPreview
    /\ UNCHANGED <<showNewProject, projLoads, formId, name, brandName, productFile,
                   productPreview, formLoading, formError, urlsCreated, subs, nsubs,
                   callLog, bucket, projectsTbl, onSuccessCalls>>

\* onClear of the product FileUpload.
ClearProduct ==
    /\ UNCHANGED <<genVars, zipVars, appVars>>
    /\ UNCHANGED subOut
    /\ showNewProject
    /\ productPreview # NoPreview
    /\ revokedUrls' = revokedUrls \cup FileUploadRevokes(productPreview)
    /\ productFile' = NoFile
    /\ productPreview' = NoPreview
    /\ UNCHANGED <<showNewProject, projLoads, formId, name, brandName, logoFile,
                   logoPreview, formLoading, formError, urlsCreated, subs, nsubs,
                   callLog, bucket, projectsTbl, onSuccessCalls>>

\* Mutant of AfterUser: the insert is issued right after the user lookup.
Mut_AfterUser(s) == "insert"

\* The call handleSubmit issues after the user lookup or an upload: the next
\* selected file's upload, else the insert.
AfterUser(s) == IF subs[s].logo # NoFile THEN "uploadLogo"
                ELSE IF subs[s].product # NoFile THEN "uploadProduct" ELSE "insert"
AfterLogo(s) == IF subs[s].product # NoFile THEN "uploadProduct" ELSE "insert"

\* catch { setError(message) } finally { setLoading(false) }
SubmitFail(s, message) ==
    /\ subs' = [subs EXCEPT ![s].pc = "idle"]
    /\ formError' = IF FormOf(s) THEN message ELSE formError
    /\ formLoading' = IF FormOf(s) THEN FALSE ELSE formLoading

\* handleSubmit of submission s resumes after `returned` and issues `next`.
SubmitAwait(s, returned, next) ==
    subOut' = [subOut EXCEPT ![s] = Await(@, returned, next)]

\* The form's submit event (the submit button is disabled while loading):
\* setLoading(true), setError(''), and getUser is called. The handler closes over
\* the field values of this render.
HandleSubmit ==
    /\ UNCHANGED <<genVars, zipVars, appVars>>
    /\ subOut' = [subOut EXCEPT ![nsubs + 1] = {"getUser"}]
    /\ showNewProject
    /\ ~formLoading
    /\ Required(name) /\ Required(brandName)
    /\ nsubs < MaxSubmits
    /\ nsubs' = nsubs + 1
    /\ subs' = [subs EXCEPT ![nsubs + 1] =
                   [pc |-> "getUser", form |-> formId, name |-> name,
                    brand |-> brandName, logo |-> logoFile, product |-> productFile,
                    logoUrl |-> "", productUrl |-> ""]]
    /\ formLoading' = TRUE
    /\ formError' = ""
    /\ UNCHANGED <<showNewProject, projLoads, formId, name, brandName, logoFile,
                   productFile, logoPreview, productPreview, urlsCreated, revokedUrls,
                   callLog, bucket, projectsTbl, onSuccessCalls>>

\* getUser returns: no user throws 'Not authenticated'.
SubmitUser(s) ==
    /\ UNCHANGED <<genVars, zipVars, appVars>>
    /\ subs[s].pc = "getUser"
    /\ \E ok \in BOOLEAN :
        /\ callLog' = [callLog EXCEPT ![s] = Append(@, [call |-> "getUser", ok |-> ok])]
        /\ SubmitAwait(s, "getUser", IF ok THEN <<AfterUser(s)>> ELSE <<>>)
        /\ IF ok
           THEN /\ subs' = [subs EXCEPT ![s].pc = AfterUser(s)]
                /\ UNCHANGED <<formLoading, formError>>
           ELSE SubmitFail(s, "Not authenticated")
    /\ UNCHANGED <<showNewProject, projLoads, formId, name, brandName, logoFile,
                   productFile, logoPreview, productPreview, urlsCreated, revokedUrls,
                   nsubs, bucket, projectsTbl, onSuccessCalls>>

\* The logo upload returns: uploadError throws, else logoUrl = publicUrl.
SubmitUploadLogo(s) ==
    /\ UNCHANGED <<genVars, zipVars, appVars>>
    /\ subs[s].pc = "uploadLogo"
    /\ \E ok \in BOOLEAN :
        /\ callLog' = [callLog EXCEPT ![s] = Append(@, [call |-> "uploadLogo", ok |-> ok])]
        /\ SubmitAwait(s, "uploadLogo", IF ok THEN <<AfterLogo(s)>> ELSE <<>>)
        /\ IF ok
           THEN /\ bucket' = bucket \cup {[sub |-> s, kind |-> "logo"]}
                /\ subs' = [subs EXCEPT ![s].pc = AfterLogo(s),
                                        ![s].logoUrl = PublicUrl(s, "logo")]
                /\ UNCHANGED <<formLoading, formError>>
           ELSE /\ SubmitFail(s, "upload failed")
                /\ UNCHANGED bucket
    /\ UNCHANGED <<showNewProject, projLoads, formId, name, brandName, logoFile,
                   productFile, logoPreview, productPreview, urlsCreated, revokedUrls,
                   nsubs, projectsTbl, onSuccessCalls>>

\* The product image upload returns.
SubmitUploadProduct(s) ==
    /\ UNCHANGED <<genVars, zipVars, appVars>>
    /\ subs[s].pc = "uploadProduct"
    /\ \E ok \in BOOLEAN :
        /\ callLog' = [callLog EXCEPT ![s] = Append(@, [call |-> "uploadProduct", ok |-> ok])]
        /\ SubmitAwait(s, "uploadProduct", IF ok THEN <<"insert">> ELSE <<>>)
        /\ IF ok
           THEN /\ bucket' = bucket \cup {[sub |-> s, kind |-> "product"]}
                /\ subs' = [subs EXCEPT ![s].pc = "insert",
                                        ![s].productUrl = PublicUrl(s, "product")]
                /\ UNCHANGED <<formLoading, formError>>
           ELSE /\ SubmitFail(s, "upload failed")
                /\ UNCHANGED bucket
    /\ UNCHANGED <<showNewProject, projLoads, formId, name, brandName, logoFile,
                   productFile, logoPreview, productPreview, urlsCreated, revokedUrls,
                   nsubs, projectsTbl, onSuccessCalls>>

\* The row handleSubmit inserts.
ProjectRow(s) ==
    [sub |-> s, name |-> subs[s].name, brand_name |-> subs[s].brand,
     logo_url |-> OrNull(subs[s].logoUrl),
     product_image_url |-> OrNull(subs[s].productUrl)]

\* Dashboard.handleProjectCreated, the form's onSuccess: setShowNewProject(false)
\* and loadProjects().
HandleProjectCreated ==
    /\ showNewProject' = FALSE
    /\ projLoads' = projLoads + 1
    /\ FreshForm

\* The projects insert returns: insertError throws, else onSuccess(); finally
\* setLoading(false).
SubmitInsert(s) ==
    /\ UNCHANGED <<genVars, zipVars, appVars>>
    /\ subs[s].pc = "insert"
    /\ \E ok \in BOOLEAN :
        /\ callLog' = [callLog EXCEPT ![s] = Append(@, [call |-> "insert", ok |-> ok])]
        /\ SubmitAwait(s, "insert", IF ok THEN <<>> ELSE <<>>)
        /\ IF ok
           THEN /\ projectsTbl' = projectsTbl \cup {ProjectRow(s)}
                /\ onSuccessCalls' = [onSuccessCalls EXCEPT ![s] = @ + 1]
                /\ HandleProjectCreated
                /\ subs' = [subs EXCEPT ![s].pc = "idle"]
           ELSE /\ SubmitFail(s, "insert failed")
                /\ UNCHANGED <<projectsTbl, onSuccessCalls, showNewProject, projLoads,
                               name, brandName, logoFile, productFile, logoPreview,
                               productPreview>>
    /\ UNCHANGED <<formId, urlsCreated, revokedUrls, nsubs, bucket>>

InitForm ==
    /\ showNewProject = FALSE
    /\ projLoads = 0
    /\ formId = 0
    /\ name = EmptyString
    /\ brandName = EmptyString
    /\ logoFile = NoFile
    /\ productFile = NoFile
    /\ logoPreview = NoPreview
    /\ productPreview = NoPreview
    /\ formLoading = FALSE
    /\ formError = ""
    /\ urlsCreated = 0
    /\ revokedUrls = {}
    /\ subs = [s \in Subs |-> NoSub]
    /\ nsubs = 0
    /\ callLog = [s \in Subs |-> <<>>]
    /\ bucket = {}
    /\ projectsTbl = {ExistingProject}
    /\ onSuccessCalls = [s \in Subs |-> 0]
    /\ subOut = [s \in Subs |-> {}]

InitGen ==
    /\ store = {}
    /\ selected = 0
    /\ mounts = 0
    /\ generating = [i \in Insts |-> FALSE]
    /\ creatives = [i \in Insts |-> <<>>]
    /\ loading = [i \in Insts |-> TRUE]
    /\ progress = [i \in Insts |-> 0]
    /\ loadCall = [i \in Insts |-> [site \in {"mount", "gen"} |-> IdleCall]]
    /\ genPc = [i \in Insts |-> "idle"]
    /\ genRun = [i \in Insts |-> 0]
    /\ genAlert = [i \in Insts |-> FALSE]
    /\ readBefore = [i \in Insts |-> TRUE]
    /\ runs = 0
    /\ result = [r \in Runs |-> 0]
    /\ insertedRuns = {}
    /\ genOut = [i \in Insts |-> {}]
    /\ genIssued = [r \in Runs |-> <<>>]

\* The page load.
Init == InitApp /\ InitGen /\ InitZip /\ InitForm

\* The project list of a signed-in user, where the other flows start.
InitDashboard == InitSignedIn /\ InitGen /\ InitZip /\ InitForm

NextGen ==
    \/ SelectProject
    \/ Back
    \/ \E i \in Insts, site \in {"mount", "gen"} : LoadCreativesSelect(i, site)
    \/ \E i \in Insts : MountLoadReturn(i)
    \/ \E i \in Insts : GenStart(i)
    \/ \E i \in Insts : GenSession(i)
    \/ \E i \in Insts : GenFetch(i)
    \/ \E i \in Insts : GenDelete(i)
    \/ \E i \in Insts : GenInsert(i)
    \/ \E i \in Insts : GenReloadReturn(i)

SpecGen == InitDashboard /\ [][NextGen]_vars

\* Every remote call of generateCreatives returns, and the handler then runs on:
\* a promise that settles has its continuation run by the event loop.
GenCallsReturn ==
    \A i \in Insts :
        /\ WF_vars(GenSession(i))
        /\ WF_vars(GenFetch(i))
        /\ WF_vars(GenDelete(i))
        /\ WF_vars(GenInsert(i))
        /\ WF_vars(LoadCreativesSelect(i, "gen"))
        /\ WF_vars(GenReloadReturn(i))

\* The user stays in one CreativeGenerator view and generates.
NextRun ==
    \/ SelectProject
    \/ \E i \in Insts, site \in {"mount", "gen"} : LoadCreativesSelect(i, site)
    \/ \E i \in Insts : MountLoadReturn(i)
    \/ \E i \in Insts : GenStart(i)
    \/ \E i \in Insts : GenSession(i)
    \/ \E i \in Insts : GenFetch(i)
    \/ \E i \in Insts : GenDelete(i)
    \/ \E i \in Insts : GenInsert(i)
    \/ \E i \in Insts : GenReloadReturn(i)

SpecGenLive == InitDashboard /\ [][NextRun]_vars /\ GenCallsReturn

\* The user stays in one CreativeGenerator view: loads, generates, exports.
NextZip ==
    \/ SelectProject
    \/ \E i \in Insts, site \in {"mount", "gen"} : LoadCreativesSelect(i, site)
    \/ \E i \in Insts : MountLoadReturn(i)
    \/ \E i \in Insts : GenStart(i)
    \/ \E i \in Insts : GenSession(i)
    \/ \E i \in Insts : GenFetch(i)
    \/ \E i \in Insts : GenDelete(i)
    \/ \E i \in Insts : GenInsert(i)
    \/ \E i \in Insts : GenReloadReturn(i)
    \/ \E i \in Insts : ZipStart(i)
    \/ \E i \in Insts : ZipImport(i)
    \/ \E i \in Insts : ZipFetch(i)
    \/ \E i \in Insts : ZipGenerate(i)

SpecZip == InitDashboard /\ [][NextZip]_vars

\* The user creates projects from the Dashboard.
NextForm ==
    \/ NewProject
    \/ CancelForm
    \/ \E v \in Names : SetName(v)
    \/ \E v \in Names : SetBrandName(v)
    \/ \E f \in Files : HandleLogoSelect(f)
    \/ \E f \in Files : HandleProductSelect(f)
    \/ ClearLogo
    \/ ClearProduct
    \/ HandleSubmit
    \/ \E s \in Subs : SubmitUser(s)
    \/ \E s \in Subs : SubmitUploadLogo(s)
    \/ \E s \in Subs : SubmitUploadProduct(s)
    \/ \E s \in Subs : SubmitInsert(s)
    \/ LoadProjectsReturn

SpecForm == InitDashboard /\ [][NextForm]_vars

\* The user creates a project (name, brand, optional logo), then works in one
\* CreativeGenerator view: every handler that makes remote calls.
NextCalls ==
    \/ NewProject
    \/ \E v \in Names : SetName(v)
    \/ \E v \in Names : SetBrandName(v)
    \/ \E f \in Files : HandleLogoSelect(f)
    \/ HandleSubmit
    \/ \E s \in Subs : SubmitUser(s)
    \/ \E s \in Subs : SubmitUploadLogo(s)
    \/ \E s \in Subs : SubmitInsert(s)
    \/ NextZip

SpecCalls == InitDashboard /\ [][NextCalls]_vars

\* The auth gate: page load, session changes, the project list, logout.
NextApp ==
    \/ LookupResolve
    \/ LookupReject
    \/ \E s \in Sessions \cup {NoSession} : AuthStateChange(s)
    \/ LoadProjectsReturn
    \/ HandleLogout
    \/ \E outcome \in {"ok", "error", "throw"} : SignOutReturn(outcome)

SpecApp == Init /\ [][NextApp]_vars

\* ------------------------------------------------------------------ claims

\* The rows of run r as the run built them.
BatchOf(r) == CreativesToInsert(r, result[r])

\* The list a loadCreatives of exactly the rows of run r shows.
BatchList(r) == [k \in 1..result[r] |-> [run |-> r, vn |-> k]]

\* What CreativeGenerator instance i shows as its creatives grid (the skeleton
\* replaces the grid while loading is true; an unmounted instance shows nothing).
Displayed(i) == creatives[i]

\* C1: generation replaces rather than appends. Whenever a generateCreatives run
\* ends without the failure alert, the project's rows in the store are exactly
\* the rows built from that run's result (also when the delete returned an error).
C1_ReplacesNotAppends ==
    [][\A i \in Insts :
         (genPc[i] # "idle" /\ genPc'[i] = "idle" /\ ~genAlert'[i])
            => store' = BatchOf(genRun[i])]_vars

\* C2: after any sequence of generation triggers the variation numbers of the
\* project's rows are exactly 1..N, N the number of rows: no gap, no duplicate.
C2_VariationDense ==
    {r.vn : r \in store} = 1..Cardinality(store)

\* C3: batch replacement is atomic for the UI. The list an instance shows is one
\* complete batch as it was stored, or the empty list of a project that was never
\* generated; never the emptied or partly replaced store between delete and insert.
C3_AtomicDisplay ==
    \A i \in Insts :
        (selected = i /\ ~loading[i]) =>
            \/ Displayed(i) = <<>> /\ readBefore[i]
            \/ \E r \in insertedRuns : Displayed(i) = BatchList(r)

\* The archive instance i gave to the browser (downloadAsZip ended in a download).
Downloaded(i) == ~downloaded[i].none

\* The places of the closed-over list whose image fetch succeeded / failed (a
\* failed fetch is one that throws; an HTTP error response does not throw).
Fetched(i) == {k \in 1..Len(zipOutcome[i]) : zipOutcome[i][k] # "reject"}
FetchFailed(i) == {k \in 1..Len(zipOutcome[i]) : zipOutcome[i][k] = "reject"}

\* C4: archive export tolerates per-item failures. A failed image fetch never
\* aborts the export or raises the alert (only the import or generateAsync can);
\* the downloaded archive holds captions.txt, no image file of a creative whose
\* fetch failed, and an image file of every creative whose fetch succeeded.
C4_ArchiveTolerant ==
    \A i \in Insts :
        /\ zipThrew[i] # "none" => Len(zipOutcome[i]) \in {0, Len(zipList[i])}
        /\ (zips > 0 /\ zipList[i] # <<>> /\ zipPc[i] = "idle" /\ zipThrew[i] = "none")
              => Downloaded(i)
        /\ Downloaded(i) =>
              /\ downloaded[i].captions = CaptionsText(zipList[i])
              /\ \A k \in FetchFailed(i) :
                    ~\E f \in downloaded[i].files : f.content = zipList[i][k]
              /\ \A k \in Fetched(i) :
                    \E f \in downloaded[i].files :
                        /\ f.name = FileName(zipList[i][k])
                        /\ f.content = zipList[i][k]

\* C5: the archive is one manifest plus image files named by variation number.
\* The manifest has one entry per displayed creative, in display order, numbered
\* 1..n; every fetched creative is stored as creative_<variation_number>.jpg;
\* there are as many image files as successful fetches; and manifest entry k
\* describes the creative stored as creative_k.jpg.
C5_ArchiveLayout ==
    \A i \in Insts :
        Downloaded(i) =>
            /\ downloaded[i].captions = CaptionsText(zipList[i])
            /\ \A k \in Fetched(i) :
                  \E f \in downloaded[i].files :
                      /\ f.name = FileName(zipList[i][k])
                      /\ f.content = zipList[i][k]
            /\ Cardinality(downloaded[i].files) = Cardinality(Fetched(i))
            /\ \A f \in downloaded[i].files :
                  /\ f.name \in 1..Len(downloaded[i].captions)
                  /\ downloaded[i].captions[f.name].of = f.content

\* The calls of submission s that were answered, in order.
CallsOf(s) == callLog[s]

\* The calls handleSubmit makes when none fails: the user lookup, the upload of
\* each selected file (logo, then product image), the insert.
ExpectedCalls(s) ==
    <<"getUser">>
        \o (IF subs[s].logo # NoFile THEN <<"uploadLogo">> ELSE <<>>)
        \o (IF subs[s].product # NoFile THEN <<"uploadProduct">> ELSE <<>>)
        \o <<"insert">>

RowsOf(s) == {p \in projectsTbl : p.sub = s}

\* Submission s has issued its projects insert.
InsertIssued(s) == subs[s].pc = "insert" \/ \E k \in 1..Len(CallsOf(s)) :
                                               CallsOf(s)[k].call = "insert"

LiveUrls == (1..urlsCreated) \ revokedUrls

C10_RequiredFields ==
    \A s \in Subs :
        (subs[s].pc # "idle" \/ CallsOf(s) # <<>>)
            => subs[s].name # EmptyString /\ subs[s].brand # EmptyString

\* C10 witness: the form stands with a file selected and an empty project name
\* (the submit event is withheld), after an earlier submission of the filled
\* form made its calls.
W10_RequiredFields ==
    /\ showNewProject /\ ~formLoading
    /\ name = EmptyString /\ brandName # EmptyString /\ logoFile # NoFile
    /\ nsubs < MaxSubmits
    /\ \E s \in 1..nsubs : CallsOf(s) # <<>> /\ subs[s].pc = "idle"

\* The actions that showed the user a failure: the alert of generateCreatives or
\* downloadAsZip, the inline error of the project form. App and Dashboard have no
\* alert and no error element.
Surfaced ==
    (IF \E i \in Insts : genAlert[i] THEN {"generateCreatives"} ELSE {})
        \cup (IF \E i \in Insts : zipThrew[i] # "none" THEN {"downloadAsZip"} ELSE {})
        \cup (IF formError # "" THEN {"handleSubmit"} ELSE {})

\* C6: every failure of a remote call inside an action is caught and surfaced as
\* an alert or inline error, and no action is left in its loading state. Stated
\* here for the actions of App and Dashboard: the initial session lookup, load
\* projects and logout.
C6_FailuresSurfaced ==
    /\ failedCalls \subseteq Surfaced
    /\ lookupPc = "rejected" => ~appLoading

\* C8: the auth gate. Once the initial lookup has resolved App shows the
\* dashboard exactly when the held session is non-null and the login form
\* otherwise; the held session is the one of the most recent lookup result,
\* session-change notification or logout; after a logout whose signOut returned
\* the login form is shown.
C8_AuthGate ==
    /\ lookupPc = "resolved" <=> ~appLoading
    /\ lookupPc = "resolved" =>
          /\ View = "dashboard" <=> session # NoSession
          /\ View = "login" <=> session = NoSession
          /\ session = lastEvent.session
          /\ View = "dashboard" <=> lastEvent.session # NoSession
          /\ lastEvent.kind = "logout" => View = "login"

\* C8 witness: the login form is shown after a logout whose signOut returned an
\* error, the auth client still holding the session of an earlier sign-in.
W8_AuthGate ==
    /\ lookupPc = "resolved"
    /\ lastEvent.kind = "logout"
    /\ authSession = "s2"
    /\ View = "login"

\* The order in which generateCreatives makes its remote calls.
GenCallOrder == <<"getSession", "fetch", "delete", "insert", "select">>

IsPrefix(p, q) == Len(p) <= Len(q) /\ \A k \in 1..Len(p) : p[k] = q[k]

NothingInFlight ==
    \A j \in Insts :
        /\ genPc[j] = "idle"
        /\ \A site \in {"mount", "gen"} : loadCall[j][site].pc = "idle"

\* C12: the displayed state is consistent with the remote store across the
\* generation flow. Whenever a generateCreatives run of the mounted instance has
\* finished (generating is false) and nothing else is in flight, the creatives
\* list it displays is the project's stored rows ordered by variation number,
\* whatever the outcome of the run.
C12_DisplayMatchesStore ==
    \A i \in Insts :
        (selected = i /\ genRun[i] # 0 /\ ~generating[i] /\ ~loading[i]
            /\ NothingInFlight)
            => Displayed(i) \in OrderByVariation(store)

\* This step ends the run of instance i at a failure before its delete: no
\* session, or the function call threw or answered with a non-ok response.
FailsBeforeDelete(i) == genPc[i] \in {"getSession", "fetch"} /\ genPc'[i] = "idle"

\* C13: a generation run that fails before the delete step changes nothing. No
\* step of a run up to its function call touches the stored rows or the
\* displayed list; the step at which the run fails there shows the failure
\* alert, and the run has issued no delete and no insert; a run without a
\* session has called nothing but getSession.
C13_FailBeforeDeleteChangesNothing ==
    [][\A i \in Insts :
          /\ (genPc'[i] # genPc[i] /\ genPc'[i] \in {"getSession", "fetch"})
                => store' = store /\ creatives' = creatives
          /\ FailsBeforeDelete(i) =>
                /\ store' = store /\ creatives' = creatives
                /\ genAlert'[i]
                /\ genOut'[i] = {}
                /\ Range(genIssued'[genRun[i]]) \cap {"delete", "insert"} = {}
                /\ genPc[i] = "getSession"
                      => genIssued'[genRun[i]] = <<"getSession">>]_vars

\* C13 witness: with a stored batch displayed, a second run of the mounted
\* instance has failed at the function call and the alert is up.
W13_FailBeforeDeleteChangesNothing ==
    \E i \in Insts :
        /\ selected = i /\ genPc[i] = "idle" /\ genAlert[i]
        /\ genIssued[genRun[i]] = <<"getSession", "fetch">>
        /\ store # {} /\ Displayed(i) \in OrderByVariation(store)

\* The values generateCreatives gives to setProgress.
ProgressValues == {0, 20, 60, 100}

\* C14: the generation progress state always returns to idle. generating is
\* true exactly from the trigger until the run ends; progress is one of 0, 20,
\* 60, 100, is 0 when no run is active and never decreases while generating
\* stays true; and, every remote call returning, every run ends with
\* generating = false and progress = 0, whatever the outcome of its steps.
C14_ProgressReturnsToIdle ==
    /\ [](\A i \in Insts :
            /\ generating[i] <=> genPc[i] # "idle"
            /\ progress[i] \in ProgressValues
            /\ ~generating[i] => progress[i] = 0)
    /\ [][\A i \in Insts :
            generating[i] /\ generating'[i] => progress'[i] >= progress[i]]_vars
    /\ \A i \in Insts : generating[i] ~> (~generating[i] /\ progress[i] = 0)

\* C14 witness: an instance is idle again, progress 0, after a run that made all
\* its calls and a second run whose insert failed.
W14_ProgressReturnsToIdle ==
    \E i \in Insts :
        /\ ~generating[i] /\ progress[i] = 0 /\ genAlert[i]
        /\ genRun[i] = 2
        /\ genIssued[1] = GenCallOrder
        /\ genIssued[2] = <<"getSession", "fetch", "delete", "insert">>

\* The instances whose generateCreatives run is in flight (all instances show
\* the same project).
RunsInFlight == {i \in Insts : genPc[i] # "idle"}

\* C15: at most one generation run per project is in flight at any time, so the
\* delete and insert steps of two runs never interleave: while a run stands
\* between its trigger and its end no other run of the project does, also after
\* Back, re-selecting the project and triggering again.
C15_OneRunInFlight ==
    /\ Cardinality(RunsInFlight) <= 1
    /\ \A i, j \in Insts :
          (i # j /\ genPc[i] \in {"delete", "insert"})
              => genPc[j] \notin {"delete", "insert"}

====
